---- MODULE Spec2Model ----
(***************************************************************************)
(* Model of bizay_scraper/scraper.py: BizayScraper.scrape and main, with   *)
(* the helpers they call (_parse_url_params, _build_url_with_params,       *)
(* _discover_options, _get_predefined_options, _extract_pricing,           *)
(* _scrape_variant).  The renderer (playwright page) is the environment:   *)
(* what a page holds is drawn from bounded sets, a navigation may fail.    *)
(*                                                                         *)
(* Encoding.  A URL is a record [scheme, netloc, path, query]; a query     *)
(* string is the sequence of its <<key, value>> pairs; a Python dict is    *)
(* the sequence of its <<key, value>> items in insertion order.  Money is  *)
(* counted in cents, a unit price in 1/10000 of a dollar.                  *)
(***************************************************************************)
EXTENDS Integers, Sequences, FiniteSets, TLC

\* Python None / JavaScript null in an integer field
Null == -1
\* a regular expression that did not match
NoMatch == -1
\* parseFloat of text without a number ("." or ",")
NaN == -2
\* querySelector found no element
NoElement == -3
\* Python None in a string field
PyNone == "<None>"

----------------------------------------------------------------------------
(* Bounds of the model *)

\* navigation failures drawn by the environment in one run of scrape
MaxNavFailures == 3
\* leaf nodes matched per axis by the discovery script
MaxRaw == 2
\* price rows on one page
MaxRows == 2
\* table cells on one page
MaxCells == 2

----------------------------------------------------------------------------
(* Sequence helpers *)

Range(s) == {s[n] : n \in 1..Len(s)}

SeqsUpTo(S, n) == UNION {[1..m -> S] : m \in 0..n}

RECURSIVE SumLen(_)
SumLen(groups) ==
    IF groups = <<>> THEN 0
    ELSE Len(Head(groups).values) + SumLen(Tail(groups))

RECURSIVE Flatten(_)
Flatten(ss) == IF ss = <<>> THEN <<>> ELSE Head(ss) \o Flatten(Tail(ss))

----------------------------------------------------------------------------
(* Python dict, as the sequence of its items in insertion order *)

DictHas(d, k) == \E n \in 1..Len(d) : d[n][1] = k

DictGet(d, k) ==
    IF DictHas(d, k) THEN d[CHOOSE n \in 1..Len(d) : d[n][1] = k][2] ELSE PyNone

\* d[k] = v : an existing key keeps its position, a new key goes last
DictSet(d, k, v) ==
    IF DictHas(d, k)
    THEN [n \in 1..Len(d) |-> IF d[n][1] = k THEN <<k, v>> ELSE d[n]]
    ELSE Append(d, <<k, v>>)

----------------------------------------------------------------------------
(* URL helpers *)

\* urllib.parse.parse_qs with its defaults: a pair with a blank value is
\* dropped, the values of a repeated key are collected under its first
\* occurrence
RECURSIVE parse_qs(_)
parse_qs(query) ==
    IF query = <<>> THEN <<>>
    ELSE LET k == query[Len(query)][1]
             v == query[Len(query)][2]
             d == parse_qs(SubSeq(query, 1, Len(query) - 1))
         IN  IF v = "" THEN d
             ELSE IF DictHas(d, k) THEN DictSet(d, k, Append(DictGet(d, k), v))
             ELSE Append(d, <<k, <<v>> >>)

\* {k: v[0] if v else '' for k, v in params.items()}
_parse_url_params(url) ==
    LET params == parse_qs(url.query)
    IN  [n \in 1..Len(params) |->
            <<params[n][1],
              IF params[n][2] # <<>> THEN params[n][2][1] ELSE "">>]

\* url.split('?')[0]
SplitBase(url) == [scheme |-> url.scheme, netloc |-> url.netloc, path |-> url.path]

\* urlunparse((scheme, netloc, path, '', urlencode(params), ''))
_build_url_with_params(base_url, params) ==
    [scheme |-> base_url.scheme, netloc |-> base_url.netloc,
     path |-> base_url.path, query |-> params]

----------------------------------------------------------------------------
(* Option discovery *)

SPF_PARAMS == <<"spf0", "spf1", "spf2", "spf3">>

spf_names ==
    << [spf_param |-> "spf0", name |-> "Product Type", key |-> "product_type"],
       [spf_param |-> "spf1", name |-> "Shape",        key |-> "shape"],
       [spf_param |-> "spf2", name |-> "Size",         key |-> "size"],
       [spf_param |-> "spf3", name |-> "Material",     key |-> "paper_stock"] >>

_get_predefined_options ==
    << [name |-> "Shape", key |-> "shape", spf_param |-> "spf1",
        values |-> << [value |-> "Rectangle", id |-> "1390"],
                      [value |-> "Rectangle | Rounded Corners", id |-> "1399"] >>],
       [name |-> "Size", key |-> "size", spf_param |-> "spf2",
        values |-> << [value |-> "2 x 3.5 in", id |-> "1391"],
                      [value |-> "2 x 2 in", id |-> "1406"] >>],
       [name |-> "Paper stock", key |-> "paper_stock", spf_param |-> "spf3",
        values |-> << [value |-> "14pt Cardstock Gloss", id |-> "1419"],
                      [value |-> "14pt Cardstock Matte", id |-> "1420"],
                      [value |-> "14pt Cardstock High Gloss (UV)", id |-> "1421"] >>] >>

\* the loop over option_values with the seen set, keyed by f"{value}_{id}"
RECURSIVE DedupValues(_, _)
DedupValues(option_values, seen) ==
    IF option_values = <<>> THEN <<>>
    ELSE LET val == Head(option_values)
             key == val.value \o "_" \o val.id
         IN  IF key \in seen
             THEN DedupValues(Tail(option_values), seen)
             ELSE <<val>> \o DedupValues(Tail(option_values), seen \cup {key})

\* one iteration of the loop over spf_names: dom[n] is what page.evaluate
\* does for that parameter (it raises, or returns the matched values)
OptionGroup(dom, n) ==
    [name |-> spf_names[n].name, key |-> spf_names[n].key,
     spf_param |-> spf_names[n].spf_param,
     values |-> IF dom[n].raises THEN <<>> ELSE DedupValues(dom[n].values, {})]

\* groups 1..n that have values, in the order of spf_names
RECURSIVE InferredOptions(_, _)
InferredOptions(dom, n) ==
    IF n = 0 THEN <<>>
    ELSE LET option_group == OptionGroup(dom, n)
         IN  IF option_group.values # <<>>
             THEN Append(InferredOptions(dom, n - 1), option_group)
             ELSE InferredOptions(dom, n - 1)

\* _discover_options falling back on the number of axes only
DiscoverOptionsAxesOnly(dom) ==
    LET options == InferredOptions(dom, Len(spf_names))
    IN  IF Len(options) < 2 THEN _get_predefined_options ELSE options

_discover_options(dom) ==
    LET options == InferredOptions(dom, Len(spf_names))
    IN  IF Len(options) < 2 \/ SumLen(options) < 4
        THEN _get_predefined_options
        ELSE options

----------------------------------------------------------------------------
(* Selection enumeration *)

\* values_with_meta of one option group
ValuesWithMeta(opt) ==
    [n \in 1..Len(opt.values) |->
        [key |-> opt.key, value |-> opt.values[n].value,
         id |-> opt.values[n].id, spf_param |-> opt.spf_param]]

RECURSIVE OptionValueLists(_)
OptionValueLists(options) ==
    IF options = <<>> THEN <<>>
    ELSE LET values_with_meta == ValuesWithMeta(Head(options))
         IN  IF values_with_meta # <<>>
             THEN <<values_with_meta>> \o OptionValueLists(Tail(options))
             ELSE OptionValueLists(Tail(options))

\* Product with the first list varying fastest
RECURSIVE ProductFirstFastest(_)
ProductFirstFastest(lists) ==
    IF lists = <<>> THEN << <<>> >>
    ELSE LET rest == ProductFirstFastest(Tail(lists))
         IN  Flatten([b \in 1..Len(rest) |->
                        [a \in 1..Len(Head(lists)) |-> <<Head(lists)[a]>> \o rest[b]]])

\* itertools.product(*lists): the last list varies fastest
RECURSIVE Product(_)
Product(lists) ==
    IF lists = <<>> THEN << <<>> >>
    ELSE LET rest == Product(Tail(lists))
         IN  Flatten([a \in 1..Len(Head(lists)) |->
                        [b \in 1..Len(rest) |-> <<Head(lists)[a]>> \o rest[b]]])

AllCombinations(options) ==
    LET option_value_lists == OptionValueLists(options)
    IN  IF option_value_lists # <<>> THEN Product(option_value_lists) ELSE <<>>

\* {item['key']: item for item in combo}
RECURSIVE SelectionOf(_)
SelectionOf(combo) ==
    IF combo = <<>> THEN <<>>
    ELSE LET item == combo[Len(combo)]
         IN  DictSet(SelectionOf(SubSeq(combo, 1, Len(combo) - 1)), item.key, item)

----------------------------------------------------------------------------
(* Pricing extraction *)

MinQty == 50
MaxQtyExcl == 100000

\* Admitted with the upper bound included
AdmittedInclusive(qty, price) == qty >= MinQty /\ price > 0 /\ qty <= MaxQtyExcl

\* the range test both script passes apply to a matched pair
Admitted(qty, price) == qty >= MinQty /\ price > 0 /\ qty < MaxQtyExcl

\* first pass: one candidate per row whose text matches both patterns
RECURSIVE RowPass(_)
RowPass(rows) ==
    IF rows = <<>> THEN <<>>
    ELSE LET row == Head(rows)
         IN  (IF row.qty # NoMatch /\ row.price # NoMatch /\ Admitted(row.qty, row.price)
              THEN << [quantity |-> row.qty, total_price |-> row.price] >>
              ELSE <<>>) \o RowPass(Tail(rows))

\* second pass: cell n gives the quantity, cell n + 1 the price
RECURSIVE CellPass(_, _)
CellPass(cells, n) ==
    IF n >= Len(cells) THEN <<>>
    ELSE (IF cells[n].qty # NoMatch /\ cells[n + 1].price # NoMatch
             /\ Admitted(cells[n].qty, cells[n + 1].price)
          THEN << [quantity |-> cells[n].qty, total_price |-> cells[n + 1].price] >>
          ELSE <<>>) \o CellPass(cells, n + 1)

\* the current-price element, pushed with quantity null
MainPrice(main) ==
    IF main # NoElement /\ main # NoMatch
    THEN << [quantity |-> Null, total_price |-> main] >>
    ELSE <<>>

\* what page.evaluate returns to _extract_pricing
PricingData(page) == RowPass(page.rows) \o CellPass(page.cells, 1) \o MainPrice(page.main)

\* Round4 cutting the digits after the fourth decimal
Round4Truncating(total, quantity) == (total * 100) \div quantity

\* round(total_price / quantity, 4); total in cents, result in 1/10000 dollar,
\* an exact tie goes to the even digit
Round4(total, quantity) ==
    LET n == total * 100
        q == n \div quantity
        r == n % quantity
    IN  IF 2 * r < quantity THEN q
        ELSE IF 2 * r > quantity THEN q + 1
        ELSE IF q % 2 = 0 THEN q ELSE q + 1

\* Python truth value of p['quantity']
Truthy(quantity) == quantity # Null /\ quantity # 0

Tier(p) ==
    [quantity |-> p.quantity,
     unit_price |-> [amount |-> IF Truthy(p.quantity)
                                THEN Round4(p.total_price, p.quantity) ELSE Null,
                     currency |-> "USD"],
     total_price |-> [amount |-> p.total_price, currency |-> "USD"]]

\* Tiers without the seen set
RECURSIVE TiersNoDedup(_, _)
TiersNoDedup(pricing_data, seen) ==
    IF pricing_data = <<>> THEN <<>>
    ELSE LET p == Head(pricing_data)
         IN  IF Truthy(p.quantity)
             THEN <<Tier(p)>> \o TiersNoDedup(Tail(pricing_data), seen)
             ELSE TiersNoDedup(Tail(pricing_data), seen)

\* the loop over pricing_data with the seen set
RECURSIVE Tiers(_, _)
Tiers(pricing_data, seen) ==
    IF pricing_data = <<>> THEN <<>>
    ELSE LET p == Head(pricing_data)
         IN  IF Truthy(p.quantity) /\ p.quantity \notin seen
             THEN <<Tier(p)>> \o Tiers(Tail(pricing_data), seen \cup {p.quantity})
             ELSE Tiers(Tail(pricing_data), seen)

\* x['quantity'] or 0
SortKey(x) == IF Truthy(x.quantity) THEN x.quantity ELSE 0

\* list.sort(key=...): stable, ascending
RECURSIVE Insert(_, _)
Insert(sorted, x) ==
    IF sorted = <<>> THEN <<x>>
    ELSE IF SortKey(sorted[Len(sorted)]) <= SortKey(x) THEN Append(sorted, x)
    ELSE Append(Insert(SubSeq(sorted, 1, Len(sorted) - 1), x), sorted[Len(sorted)])

RECURSIVE SortByQuantity(_)
SortByQuantity(pricing) ==
    IF pricing = <<>> THEN <<>>
    ELSE Insert(SortByQuantity(SubSeq(pricing, 1, Len(pricing) - 1)),
                pricing[Len(pricing)])

\* a page whose script evaluation raises yields the empty list
_extract_pricing(page) ==
    IF page.broken THEN <<>>
    ELSE SortByQuantity(Tiers(PricingData(page), {}))

----------------------------------------------------------------------------
(* Variant scraping *)

\* params = base_params.copy(); params[val['spf_param']] = val['id'] for
\* every item of the selection
RECURSIVE OverlayParams(_, _)
OverlayParams(base_params, selection) ==
    IF selection = <<>> THEN base_params
    ELSE LET val == selection[Len(selection)][2]
         IN  DictSet(OverlayParams(base_params, SubSeq(selection, 1, Len(selection) - 1)),
                     val.spf_param, val.id)

VariantUrl(base_url, base_params, selection) ==
    _build_url_with_params(base_url, OverlayParams(base_params, selection))

\* {k: {'value': v['value'], 'id': v['id']} for k, v in selection.items()}
FormatSelection(selection) ==
    [n \in 1..Len(selection) |->
        <<selection[n][1],
          [value |-> selection[n][2].value, id |-> selection[n][2].id]>>]

\* the value _scrape_variant returns: <<>> stands for None (page.goto
\* raised), <<v>> for the variant v
_scrape_variant(selection, ok, rendered) ==
    IF ok
    THEN << [sku |-> PyNone,
             available |-> Len(_extract_pricing(rendered)) > 0,
             selection |-> FormatSelection(selection),
             pricing |-> _extract_pricing(rendered)] >>
    ELSE <<>>

\* AppendVariant losing the captured variants when a variant fails
AppendVariantOrReset(variants, variant) ==
    IF variant # <<>> THEN Append(variants, variant[1]) ELSE <<>>

\* if variant: variants.append(variant)
AppendVariant(variants, variant) ==
    IF variant # <<>> THEN Append(variants, variant[1]) ELSE variants

\* the implicit variant of the page currently rendered
BaseVariant(pricing) ==
    [sku |-> PyNone, available |-> TRUE, selection |-> <<>>, pricing |-> pricing]

\* formatted_options
FormatOptions(options) ==
    [n \in 1..Len(options) |->
        [name |-> options[n].name, key |-> options[n].key,
         values |-> options[n].values]]

----------------------------------------------------------------------------
(* The discovery script: the leaf elements of the base page, in document   *)
(* order.  A leaf is [text, levels]: its innerText and the identifier      *)
(* attributes of the element, its parent and its grandparent.              *)

Upper == "ABCDEFGHIJKLMNOPQRSTUVWXYZ"
Lower == "abcdefghijklmnopqrstuvwxyz"
LowerOf == [c \in {SubSeq(Upper, n, n) : n \in 1..Len(Upper)} |->
               LET n == CHOOSE n \in 1..Len(Upper) : SubSeq(Upper, n, n) = c
               IN  SubSeq(Lower, n, n)]
Digits == {"0", "1", "2", "3", "4", "5", "6", "7", "8", "9"}

\* String.prototype.toLowerCase
RECURSIVE ToLower(_)
ToLower(str) ==
    IF str = "" THEN ""
    ELSE LET c == SubSeq(str, 1, 1)
         IN  (IF c \in DOMAIN LowerOf THEN LowerOf[c] ELSE c)
                \o ToLower(SubSeq(str, 2, Len(str)))

\* String.prototype.trim
RECURSIVE Trim(_)
Trim(str) ==
    IF str = "" THEN ""
    ELSE IF SubSeq(str, 1, 1) = " " THEN Trim(SubSeq(str, 2, Len(str)))
    ELSE IF SubSeq(str, Len(str), Len(str)) = " " THEN Trim(SubSeq(str, 1, Len(str) - 1))
    ELSE str

\* String.prototype.includes
Includes(str, kw) ==
    \E n \in 1..(Len(str) - Len(kw) + 1) : SubSeq(str, n, n + Len(kw) - 1) = kw

keywords(spf_param) ==
    CASE spf_param = "spf0" -> {"Standard", "Die Cut", "Folded", "Business Cards"}
      [] spf_param = "spf1" -> {"Rectangle", "Square", "Rounded", "Corners"}
      [] spf_param = "spf2" -> {"x", "in", "inch", "\"", "'"}
      [] spf_param = "spf3" -> {"pt", "lb", "Paper", "Cardstock", "Gloss", "Matte"}
      [] OTHER -> {}

MinTextLen == 2
MaxTextLen == 100

\* text.length > 2 && text.length < 100 && paramKeywords.some(...)
hasKeyword(spf_param, text) ==
    /\ Len(text) > MinTextLen /\ Len(text) < MaxTextLen
    /\ LET lower == ToLower(text)
       IN  \E kw \in keywords(spf_param) : Includes(lower, ToLower(kw))

\* /^\d+$/.test(id)
IsDigits(id) == Len(id) > 0 /\ \A n \in 1..Len(id) : SubSeq(id, n, n) \in Digits

\* getAttribute('data-id') || getAttribute('data-value') || current.id
LevelId(level) ==
    IF level.data_id # "" THEN level.data_id
    ELSE IF level.data_value # "" THEN level.data_value
    ELSE level.id

MaxLevels == 3

\* the walk stopping at the nearest level that has an identifier at all
RECURSIVE AnchorIdNearestOnly(_, _)
AnchorIdNearestOnly(levels, n) ==
    IF n > MaxLevels \/ n > Len(levels) THEN ""
    ELSE IF LevelId(levels[n]) # ""
         THEN (IF IsDigits(LevelId(levels[n])) THEN LevelId(levels[n]) ELSE "")
    ELSE AnchorIdNearestOnly(levels, n + 1)

\* for (let i = 0; i < 3; i++): the identifier of the first level, from
\* level n on, whose identifier is all digits; "" when the walk finds none
RECURSIVE AnchorId(_, _)
AnchorId(levels, n) ==
    IF n > MaxLevels \/ n > Len(levels) THEN ""
    ELSE IF LevelId(levels[n]) # "" /\ IsDigits(LevelId(levels[n]))
         THEN LevelId(levels[n])
    ELSE AnchorId(levels, n + 1)

\* the values the script pushes for one spf parameter
RECURSIVE ScriptValues(_, _)
ScriptValues(leaves, spf_param) ==
    IF leaves = <<>> THEN <<>>
    ELSE LET el == Head(leaves)
             text == Trim(el.text)
         IN  (IF el.text # "" /\ hasKeyword(spf_param, text) /\ AnchorId(el.levels, 1) # ""
              THEN << [value |-> text, id |-> AnchorId(el.levels, 1)] >>
              ELSE <<>>) \o ScriptValues(Tail(leaves), spf_param)

\* what page.evaluate does for each spf parameter on a page with these
\* leaves: it raises where raising says so, else it returns the values
DomOf(leaves, raising) ==
    [n \in 1..Len(spf_names) |->
        [raises |-> raising[n],
         values |-> IF raising[n] THEN <<>>
                    ELSE ScriptValues(leaves, spf_names[n].spf_param)]]

NoIds == [data_id |-> "", data_value |-> "", id |-> ""]

\* a page whose leaves carry their identifier in their own data-id
RECURSIVE PlainLeaves(_)
PlainLeaves(values) ==
    IF values = <<>> THEN <<>>
    ELSE << [text |-> Head(values).value,
             levels |-> << [data_id |-> Head(values).id, data_value |-> "", id |-> ""],
                           NoIds, NoIds >>] >> \o PlainLeaves(Tail(values))

\* the leaves of a base page for which the script returns d
LeavesOf(d) == PlainLeaves(Flatten([n \in 1..Len(d) |-> d[n].values]))

----------------------------------------------------------------------------
(* The environment: product URLs, what the base page shows to the          *)
(* discovery script, what the site's pages show to the pricing script      *)

BizayBase == [scheme |-> "https", netloc |-> "us.bizay.com",
              path |-> "/en-us/business-cards-2"]

DEFAULT_PRODUCT_URL ==
    [scheme |-> BizayBase.scheme, netloc |-> BizayBase.netloc, path |-> BizayBase.path,
     query |-> << <<"id", "443495438">>, <<"spf0", "1411">>, <<"spf1", "1390">>,
                  <<"spf2", "1391">>, <<"spf3", "1419">>,
                  <<"productGroupId", "1386">>, <<"indexManagementId", "3">> >>]

\* the default URL, a URL with a blank parameter and a repeated key, and a
\* URL with no query string
Urls ==
    { DEFAULT_PRODUCT_URL,
      [scheme |-> "https", netloc |-> "us.bizay.com", path |-> "/en-us/flyers",
       query |-> << <<"id", "7">>, <<"ref", "">>, <<"tag", "a">>, <<"tag", "b">>,
                    <<"spf1", "1390">> >>],
      [scheme |-> "https", netloc |-> "us.bizay.com", path |-> "/en-us/stickers",
       query |-> <<>>] }

NoValues == [raises |-> FALSE, values |-> <<>>]

\* base pages as the discovery script sees them, one entry per spf parameter
DomSnapshots ==
    { \* nothing recognised
      <<NoValues, NoValues, NoValues, NoValues>>,
      \* two axes of two values, one node matched twice
      <<NoValues,
        [raises |-> FALSE, values |-> << [value |-> "Rectangle", id |-> "1390"],
                                         [value |-> "Square", id |-> "1400"],
                                         [value |-> "Rectangle", id |-> "1390"] >>],
        [raises |-> FALSE, values |-> << [value |-> "2 x 2 in", id |-> "1406"],
                                         [value |-> "3 x 3 in", id |-> "1407"] >>],
        NoValues>>,
      \* one value and three values
      <<[raises |-> FALSE, values |-> << [value |-> "Standard", id |-> "1411"] >>],
        NoValues, NoValues,
        [raises |-> FALSE, values |-> << [value |-> "14pt Gloss", id |-> "1419"],
                                         [value |-> "16pt Matte", id |-> "1422"],
                                         [value |-> "Paper 100lb", id |-> "1423"] >>]>>,
      \* the script raises for one parameter, a single axis is left
      <<[raises |-> TRUE, values |-> <<>>],
        [raises |-> FALSE, values |-> << [value |-> "Rectangle", id |-> "1390"],
                                         [value |-> "Square", id |-> "1400"],
                                         [value |-> "Rounded", id |-> "1401"],
                                         [value |-> "Corners", id |-> "1402"] >>],
        NoValues, NoValues>> }

EmptyPage == [rows |-> <<>>, cells |-> <<>>, main |-> NoElement, broken |-> FALSE]

PricedPage ==
    [rows |-> << [qty |-> 250, price |-> 11000], [qty |-> 100, price |-> 5000],
                 [qty |-> 100, price |-> 99900], [qty |-> 10, price |-> 500] >>,
     cells |-> << [qty |-> 500, price |-> NoMatch], [qty |-> NoMatch, price |-> 19900] >>,
     main |-> 7500, broken |-> FALSE]

\* a site: the pricing content of its product pages, and the option ids
\* whose pages show no price
Sites ==
    { [content |-> PricedPage, soldOut |-> {}],
      [content |-> PricedPage, soldOut |-> {"1399", "1400", "1423"}],
      [content |-> EmptyPage, soldOut |-> {}] }

\* what the page at a URL shows to the pricing script
SitePage(site, url) ==
    IF \E n \in 1..Len(url.query) : url.query[n][2] \in site.soldOut
    THEN EmptyPage
    ELSE site.content

----------------------------------------------------------------------------
(* AshleyFurnitureScraper: URL normalisation and extraction *)

BASE_URL == "https://www.ashleyfurniture.com"
DEFAULT_CATEGORY_URL == "https://www.ashleyfurniture.com/c/furniture/bedroom/beds/"
PAGE_SIZE == 30

StartsWith(str, prefix) ==
    Len(str) >= Len(prefix) /\ SubSeq(str, 1, Len(prefix)) = prefix

\* urllib.parse.quote_plus on the characters that occur in the model: a
\* space becomes "+", letters, digits, "_", "-" and "." are kept
RECURSIVE quote_plus(_)
quote_plus(str) ==
    IF str = "" THEN ""
    ELSE (IF SubSeq(str, 1, 1) = " " THEN "+" ELSE SubSeq(str, 1, 1))
           \o quote_plus(SubSeq(str, 2, Len(str)))

\* the k=v pairs of one key of urlencode(params, doseq=True)
RECURSIVE EncodeValues(_, _)
EncodeValues(k, values) ==
    IF values = <<>> THEN <<>>
    ELSE << quote_plus(k) \o "=" \o quote_plus(Head(values)) >>
           \o EncodeValues(k, Tail(values))

RECURSIVE EncodePairs(_)
EncodePairs(params) ==
    IF params = <<>> THEN <<>>
    ELSE EncodeValues(Head(params)[1], Head(params)[2]) \o EncodePairs(Tail(params))

\* '&'.join(...)
RECURSIVE JoinAmp(_)
JoinAmp(parts) ==
    IF parts = <<>> THEN ""
    ELSE IF Len(parts) = 1 THEN parts[1]
    ELSE parts[1] \o "&" \o JoinAmp(Tail(parts))

\* urlencode(variant_params, doseq=True)
urlencode(params) == JoinAmp(EncodePairs(params))

\* 'dwvar_' in url, for a link given by its path and its query pairs
HasDwvar(href) ==
    \/ Includes(href.path, "dwvar_")
    \/ \E n \in 1..Len(href.query) :
          Includes(href.query[n][1], "dwvar_") \/ Includes(href.query[n][2], "dwvar_")

IsVariantParam(item) == StartsWith(item[1], "dwvar_")

\* the site's own host, the path, and only the dwvar_ parameters
_normalize_url(href) ==
    LET variant_params == SelectSeq(parse_qs(href.query), IsVariantParam)
    IN  IF HasDwvar(href) /\ variant_params # <<>>
        THEN BASE_URL \o href.path \o "?" \o urlencode(variant_params)
        ELSE BASE_URL \o href.path

\* a[href*="/p/"]
ProductLinks(content) == {h \in content.anchors : Includes(h.path, "/p/")}

\* url && url.includes('/p/')
SwatchLinks(content) == {h \in content.swatches : Includes(h.path, "/p/")}

\* how far _extract_urls_from_page gets before an exception ends it: "none"
\* (the first evaluate raises), "links" (the second does), "all"
Stages == {"none", "links", "all"}

\* what one call adds to self.product_urls
NewProductUrls(content, stage) ==
    IF stage = "none" THEN {}
    ELSE {u \in {_normalize_url(h) : h \in ProductLinks(content)} :
             ~Includes(u, "dwvar_")}

\* what one call adds to self.variant_urls
NewVariantUrls(content, stage) ==
    (IF stage = "none" THEN {}
     ELSE {u \in {_normalize_url(h) : h \in ProductLinks(content)} :
              Includes(u, "dwvar_")})
      \cup (IF stage = "all" THEN {_normalize_url(h) : h \in SwatchLinks(content)}
            ELSE {})

\* the characters of the model's URLs in code point order
CharOrder == "&+-./0123456789:=?ABCDEFGHIJKLMNOPQRSTUVWXYZ_abcdefghijklmnopqrstuvwxyz"

OrdOf == [c \in {SubSeq(CharOrder, n, n) : n \in 1..Len(CharOrder)} |->
             CHOOSE n \in 1..Len(CharOrder) : SubSeq(CharOrder, n, n) = c]

\* a < b for Python str
RECURSIVE StrLess(_, _)
StrLess(a, b) ==
    IF b = "" THEN FALSE
    ELSE IF a = "" THEN TRUE
    ELSE IF SubSeq(a, 1, 1) = SubSeq(b, 1, 1)
         THEN StrLess(SubSeq(a, 2, Len(a)), SubSeq(b, 2, Len(b)))
    ELSE OrdOf[SubSeq(a, 1, 1)] < OrdOf[SubSeq(b, 1, 1)]

\* sorted(S) for a set of str
RECURSIVE sorted(_)
sorted(S) ==
    IF S = {} THEN <<>>
    ELSE LET m == CHOOSE x \in S : \A y \in S \ {x} : StrLess(x, y)
         IN  <<m>> \o sorted(S \ {m})

\* total_products, 500 when the count is 0, in pages of PAGE_SIZE
TotalPages(count) ==
    LET total_products == IF count = 0 THEN 500 ELSE count
    IN  (total_products + PAGE_SIZE - 1) \div PAGE_SIZE

\* a listing page: the anchors and the swatch attributes found on it
EmptyListing == [anchors |-> {}, swatches |-> {}]

Listing1 ==
    [anchors |-> { [path |-> "/p/bed-a/B100", query |-> <<>>],
                   [path |-> "/p/bed-a/B100",
                    query |-> << <<"dwvar_B100_color", "dark oak">>, <<"pid", "7">> >>],
                   [path |-> "/c/furniture/sale", query |-> <<>>] },
     swatches |-> { [path |-> "/p/bed-a/B100",
                     query |-> << <<"dwvar_B100_size", "queen">> >>] }]

Listing2 ==
    [anchors |-> { [path |-> "/p/bed-b/B200", query |-> << <<"start", "30">> >>],
                   [path |-> "/p/bed-a/B100", query |-> <<>>] },
     swatches |-> { [path |-> "/p/bed-b/B200", query |-> <<>>],
                    [path |-> "/s/dwvar_help", query |-> <<>>] }]

Listing3 ==
    [anchors |-> { [path |-> "/p/bed-c/B300",
                    query |-> << <<"ref", "dwvar_promo">> >>] },
     swatches |-> {}]

\* a category: the product count its first page announces (0 when none is
\* found) and its listing pages
Catalogs ==
    { [count |-> 61, pages |-> <<Listing1, Listing2, Listing3>>],
      [count |-> 0, pages |-> <<Listing1, Listing2>>],
      [count |-> 30, pages |-> <<Listing2>>] }

\* the listing at ?start=(n - 1) * PAGE_SIZE; empty past the last page
PageContent(cat, n) == IF n <= Len(cat.pages) THEN cat.pages[n] ELSE EmptyListing

----------------------------------------------------------------------------
(* State *)

VARIABLES
    pc,                \* position of main / BizayScraper.scrape
    url,               \* args.url, the product URL
    dom,               \* the base page as the discovery script sees it
    leaves,            \* the leaf elements of the base page
    site,              \* the site the renderer talks to
    browser,           \* "none", "open", "closed"
    closes,            \* number of browser.close() calls
    page,              \* pricing content of the page currently rendered
    gotoLog,           \* every page.goto so far: [kind, url, ok]
    url_params,        \* scrape: url_params
    base_url,          \* scrape: base_url
    product,           \* scrape: product
    options,           \* scrape: options
    all_combinations,  \* scrape: all_combinations
    i,                 \* scrape: number of combinations the loop has handled
    variants,          \* scrape: variants
    pricing,           \* result of the latest _extract_pricing call
    exc,               \* an exception is propagating
    result,            \* what scrape returned to main: <<>> or <<record>>
    outputFile,        \* the file at args.output: <<>> or <<document>>
    ashley_pc,         \* position of AshleyFurnitureScraper.scrape
    catalog,           \* the category the Ashley renderer talks to
    ashley_browser,    \* "none", "open", "closed"
    ashley_gotoLog,    \* every page.goto so far: [kind, n, ok]
    attempt,           \* scrape: attempt
    total_pages,       \* scrape: total_pages
    page_num,          \* scrape: page_num
    product_urls,      \* self.product_urls
    variant_urls,      \* self.variant_urls
    ashley_exc,        \* an exception is propagating out of scrape
    ashley_result      \* what scrape returned: <<>> or <<record>>

ashleyVars == <<ashley_pc, catalog, ashley_browser, ashley_gotoLog, attempt, total_pages,
                page_num, product_urls, variant_urls, ashley_exc, ashley_result>>

bizayVars == <<pc, url, dom, leaves, site, browser, closes, page, gotoLog, url_params,
               base_url, product, options, all_combinations, i, variants, pricing, exc,
               result, outputFile>>

vars == <<bizayVars, ashleyVars>>

envVars == <<url, dom, leaves, site>>
localVars == <<url_params, base_url, product, options, all_combinations, i, variants,
               pricing>>

NoUrl == [scheme |-> "", netloc |-> "", path |-> ""]
NoProduct == [id |-> PyNone, product_group_id |-> PyNone, currency |-> "USD"]

\* AshleyFurnitureScraper() has been built for category cat and scrape is
\* about to be called
AshleyStart(cat) ==
    /\ ashley_pc = "setup"
    /\ catalog = cat
    /\ ashley_browser = "none" /\ ashley_gotoLog = <<>>
    /\ attempt = 0 /\ total_pages = 0 /\ page_num = 0
    /\ product_urls = {} /\ variant_urls = {}
    /\ ashley_exc = FALSE /\ ashley_result = <<>>

\* the Ashley scraper is not run
AshleyIdle == AshleyStart(CHOOSE cat \in Catalogs : cat.count = 30)

\* main has built the scraper and calls scrape: nothing is acquired yet
Start(u, d, s) ==
    /\ AshleyIdle
    /\ pc = "launch"
    /\ url = u /\ dom = d /\ leaves = LeavesOf(d) /\ site = s
    /\ browser = "none" /\ closes = 0
    /\ page = EmptyPage /\ gotoLog = <<>>
    /\ url_params = <<>> /\ base_url = NoUrl /\ product = NoProduct
    /\ options = <<>> /\ all_combinations = <<>> /\ i = 0
    /\ variants = <<>> /\ pricing = <<>>
    /\ exc = FALSE /\ result = <<>> /\ outputFile = <<>>

Init == \E u \in Urls, d \in DomSnapshots, s \in Sites : Start(u, d, s)

NavFailures(log) == Cardinality({n \in 1..Len(log) : ~log[n].ok})

----------------------------------------------------------------------------
(* BizayScraper.scrape, one action per renderer interaction *)

\* p.chromium.launch(...)
Launch ==
    /\ pc = "launch"
    /\ browser' = "open"
    /\ pc' = "new_context"
    /\ UNCHANGED <<ashleyVars, envVars, localVars, closes, page, gotoLog, exc, result, outputFile>>

\* browser.new_context(...)
NewContext ==
    /\ pc = "new_context"
    /\ pc' = "new_page"
    /\ UNCHANGED <<ashleyVars, envVars, localVars, browser, closes, page, gotoLog, exc, result,
                   outputFile>>

\* context.new_page(), then the try block is entered
NewPage ==
    /\ pc = "new_page"
    /\ pc' = "load"
    /\ UNCHANGED <<ashleyVars, envVars, localVars, browser, closes, page, gotoLog, exc, result,
                   outputFile>>

\* new_context or new_page raises: the try block was never entered, the
\* exception leaves scrape through the with statement only
SetupFault ==
    /\ pc \in {"new_context", "new_page"}
    /\ exc' = TRUE
    /\ pc' = "aborted"
    /\ UNCHANGED <<ashleyVars, envVars, localVars, browser, closes, page, gotoLog, result,
                   outputFile>>

\* LoadBase going on to the metadata when page.goto raised
LoadBaseSwallowed ==
    /\ pc = "load"
    /\ url_params' = _parse_url_params(url)
    /\ base_url' = SplitBase(url)
    /\ \E ok \in BOOLEAN :
         /\ gotoLog' = Append(gotoLog, [kind |-> "base", url |-> url, ok |-> ok])
         /\ page' = IF ok THEN SitePage(site, url) ELSE page
         /\ exc' = FALSE
         /\ pc' = "metadata"
    /\ UNCHANGED <<ashleyVars, envVars, browser, closes, product, options, all_combinations, i,
                   variants, pricing, result, outputFile>>

\* url_params, base_url, and the one page.goto(url) of the base page
LoadBase ==
    /\ pc = "load"
    /\ url_params' = _parse_url_params(url)
    /\ base_url' = SplitBase(url)
    /\ \E ok \in BOOLEAN :
         /\ gotoLog' = Append(gotoLog, [kind |-> "base", url |-> url, ok |-> ok])
         /\ page' = IF ok THEN SitePage(site, url) ELSE page
         /\ exc' = ~ok
         /\ pc' = IF ok THEN "metadata" ELSE "finally"
    /\ UNCHANGED <<ashleyVars, envVars, browser, closes, product, options, all_combinations, i,
                   variants, pricing, result, outputFile>>

\* _extract_product_metadata: the fields taken from the URL parameters
ExtractMetadata ==
    /\ pc = "metadata"
    /\ product' = [id |-> DictGet(url_params, "id"),
                   product_group_id |-> DictGet(url_params, "productGroupId"),
                   currency |-> "USD"]
    /\ pc' = "discover"
    /\ UNCHANGED <<ashleyVars, envVars, browser, closes, page, gotoLog, url_params, base_url, options,
                   all_combinations, i, variants, pricing, exc, result, outputFile>>

DiscoverOptions ==
    /\ pc = "discover"
    /\ options' = _discover_options(dom)
    /\ pc' = "enumerate"
    /\ UNCHANGED <<ashleyVars, envVars, browser, closes, page, gotoLog, url_params, base_url, product,
                   all_combinations, i, variants, pricing, exc, result, outputFile>>

\* option_value_lists, all_combinations, variants = []
Enumerate ==
    /\ pc = "enumerate"
    /\ all_combinations' = AllCombinations(options)
    /\ variants' = <<>>
    /\ i' = 0
    /\ pc' = "loop"
    /\ UNCHANGED <<ashleyVars, envVars, browser, closes, page, gotoLog, url_params, base_url, product,
                   options, pricing, exc, result, outputFile>>

\* one iteration of the loop over all_combinations.  A page.goto that
\* raises leaves the old page or an error page behind.
ScrapeVariant ==
    /\ pc = "loop"
    /\ i < Len(all_combinations)
    /\ LET selection == SelectionOf(all_combinations[i + 1])
           variant_url == VariantUrl(base_url, url_params, selection)
       IN  \E ok \in BOOLEAN, rendered \in {SitePage(site, variant_url), page, EmptyPage} :
             /\ ok => rendered = SitePage(site, variant_url)
             /\ ~ok => /\ rendered \in {page, EmptyPage}
                       /\ NavFailures(gotoLog) < MaxNavFailures
             /\ gotoLog' = Append(gotoLog,
                                  [kind |-> "variant", url |-> variant_url, ok |-> ok])
             /\ page' = rendered
             /\ pricing' = IF ok THEN _extract_pricing(rendered) ELSE pricing
             /\ variants' = AppendVariant(variants, _scrape_variant(selection, ok, rendered))
    /\ i' = i + 1
    /\ UNCHANGED <<ashleyVars, envVars, browser, closes, url_params, base_url, product, options,
                   all_combinations, pc, exc, result, outputFile>>

LoopExit ==
    /\ pc = "loop"
    /\ i = Len(all_combinations)
    /\ pc' = "implicit"
    /\ UNCHANGED <<ashleyVars, envVars, localVars, browser, closes, page, gotoLog, exc, result,
                   outputFile>>

\* if not variants: pricing of the page currently rendered
ImplicitVariant ==
    /\ pc = "implicit"
    /\ IF variants = <<>>
       THEN /\ pricing' = _extract_pricing(page)
            /\ variants' = IF pricing' # <<>> THEN <<BaseVariant(pricing')>> ELSE variants
       ELSE UNCHANGED <<pricing, variants>>
    /\ pc' = "finally"
    /\ UNCHANGED <<ashleyVars, envVars, browser, closes, page, gotoLog, url_params, base_url, product,
                   options, all_combinations, i, exc, result, outputFile>>

\* a fault none of the handlers inside the try block catches
\* (KeyboardInterrupt, a raising wait_for_timeout after the base load)
Fault ==
    /\ pc \in {"metadata", "discover", "enumerate", "loop", "implicit"}
    /\ exc' = TRUE
    /\ pc' = "finally"
    /\ UNCHANGED <<ashleyVars, envVars, localVars, browser, closes, page, gotoLog, result, outputFile>>

\* Finally closing the browser on the normal path only
FinallyOnSuccessOnly ==
    /\ pc = "finally"
    /\ browser' = IF exc THEN browser ELSE "closed"
    /\ closes' = IF exc THEN closes ELSE closes + 1
    /\ pc' = IF exc THEN "aborted" ELSE "assemble"
    /\ UNCHANGED <<ashleyVars, envVars, localVars, page, gotoLog, exc, result, outputFile>>

\* finally: browser.close(); a propagating exception then leaves scrape
Finally ==
    /\ pc = "finally"
    /\ browser' = "closed"
    /\ closes' = closes + 1
    /\ pc' = IF exc THEN "aborted" ELSE "assemble"
    /\ UNCHANGED <<ashleyVars, envVars, localVars, page, gotoLog, exc, result, outputFile>>

\* the instants datetime.now can return
Clock == {1, 2}

RECURSIVE Reverse(_)
Reverse(s) == IF s = <<>> THEN <<>> ELSE Append(Reverse(Tail(s)), Head(s))

\* Assemble listing the variants in an order that depends on the instant
AssembleOrderByClock ==
    /\ pc = "assemble"
    /\ \E now \in Clock :
         result' = << [source_url |-> url, scraped_at |-> now, product |-> product,
                       options |-> FormatOptions(options),
                       variants |-> IF now = 1 THEN variants ELSE Reverse(variants)] >>
    /\ pc' = "write"
    /\ UNCHANGED <<ashleyVars, envVars, localVars, browser, closes, page, gotoLog, exc, outputFile>>

\* formatted_options, result; return result
Assemble ==
    /\ pc = "assemble"
    /\ \E now \in Clock :
         result' = << [source_url |-> url, scraped_at |-> now, product |-> product,
                       options |-> FormatOptions(options), variants |-> variants] >>
    /\ pc' = "write"
    /\ UNCHANGED <<ashleyVars, envVars, localVars, browser, closes, page, gotoLog, exc, outputFile>>

----------------------------------------------------------------------------
(* main *)

\* json.dump(result, f)
WriteOutput ==
    /\ pc = "write"
    /\ outputFile' = result
    /\ pc' = "done"
    /\ UNCHANGED <<ashleyVars, envVars, localVars, browser, closes, page, gotoLog, exc, result>>

Next ==
    \/ Launch \/ NewContext \/ NewPage \/ SetupFault \/ LoadBase \/ ExtractMetadata
    \/ DiscoverOptions \/ Enumerate \/ ScrapeVariant \/ LoopExit \/ ImplicitVariant
    \/ Fault \/ Finally \/ Assemble \/ WriteOutput

Spec == Init /\ [][Next]_vars

----------------------------------------------------------------------------
(* Option discovery and enumeration over every bounded base page *)

\* the values the discovery script can match for each spf parameter
ValuePool ==
    << { [value |-> "Standard", id |-> "1411"], [value |-> "Die Cut", id |-> "1412"] },
       { [value |-> "Rectangle", id |-> "1390"], [value |-> "Square", id |-> "1400"] },
       { [value |-> "2 x 2 in", id |-> "1406"], [value |-> "3 x 3 in", id |-> "1407"] },
       { [value |-> "14pt Gloss", id |-> "1419"], [value |-> "16pt Matte", id |-> "1422"] } >>

AxisDoms(n) ==
    {[raises |-> TRUE, values |-> <<>>]}
        \cup {[raises |-> FALSE, values |-> v] : v \in SeqsUpTo(ValuePool[n], MaxRaw)}

AllDoms ==
    {<<d0, d1, d2, d3>> : d0 \in AxisDoms(1), d1 \in AxisDoms(2),
                          d2 \in AxisDoms(3), d3 \in AxisDoms(4)}

\* scrape has loaded the base page of u and extracted the metadata
AtDiscover(u, d, s) ==
    /\ AshleyIdle
    /\ pc = "discover"
    /\ url = u /\ dom = d /\ leaves = LeavesOf(d) /\ site = s
    /\ browser = "open" /\ closes = 0
    /\ page = SitePage(s, u)
    /\ gotoLog = << [kind |-> "base", url |-> u, ok |-> TRUE] >>
    /\ url_params = _parse_url_params(u) /\ base_url = SplitBase(u)
    /\ product = [id |-> DictGet(_parse_url_params(u), "id"),
                  product_group_id |-> DictGet(_parse_url_params(u), "productGroupId"),
                  currency |-> "USD"]
    /\ options = <<>> /\ all_combinations = <<>> /\ i = 0
    /\ variants = <<>> /\ pricing = <<>>
    /\ exc = FALSE /\ result = <<>> /\ outputFile = <<>>

InitDiscover ==
    \E d \in AllDoms :
        AtDiscover(DEFAULT_PRODUCT_URL, d, [content |-> PricedPage, soldOut |-> {}])

NextDiscover == DiscoverOptions \/ Enumerate

SpecDiscover == InitDiscover /\ [][NextDiscover]_vars

----------------------------------------------------------------------------
(* Pricing extraction over every bounded page *)

\* what the two patterns of the row pass find in the text of one row: no
\* match, a quantity out of range on either side, an amount of zero, and
\* pairs in range (one quantity with two different amounts)
RowTexts ==
    { [qty |-> NoMatch, price |-> NoMatch],
      [qty |-> 10, price |-> 5000], [qty |-> 100000, price |-> 5000],
      [qty |-> 50, price |-> 0],
      [qty |-> 50, price |-> 5000], [qty |-> 50, price |-> 11000],
      [qty |-> 250, price |-> 11000] }

\* what the patterns of the cell pass find in the text of one cell
CellTexts ==
    { [qty |-> NoMatch, price |-> NoMatch],
      [qty |-> 50, price |-> NoMatch], [qty |-> 100000, price |-> NoMatch],
      [qty |-> NoMatch, price |-> 0], [qty |-> NoMatch, price |-> 5000],
      [qty |-> 300, price |-> 5000] }

MainTexts == {NoElement, NoMatch, 7500}

AllPages ==
    {[rows |-> <<>>, cells |-> <<>>, main |-> NoElement, broken |-> TRUE]}
        \cup [rows : SeqsUpTo(RowTexts, MaxRows), cells : SeqsUpTo(CellTexts, MaxCells),
              main : MainTexts, broken : {FALSE}]

\* the discovery found one value and three values; none of the three
\* variant navigations succeeded and the base page is still rendered
ThreeCombos ==
    <<[raises |-> FALSE, values |-> << [value |-> "Standard", id |-> "1411"] >>],
      NoValues, NoValues,
      [raises |-> FALSE, values |-> << [value |-> "14pt Gloss", id |-> "1419"],
                                       [value |-> "16pt Matte", id |-> "1422"],
                                       [value |-> "Paper 100lb", id |-> "1423"] >>]>>

FailedLog(u, combos) ==
    << [kind |-> "base", url |-> u, ok |-> TRUE] >>
        \o [n \in 1..Len(combos) |->
               [kind |-> "variant",
                url |-> VariantUrl(SplitBase(u), _parse_url_params(u), SelectionOf(combos[n])),
                ok |-> FALSE]]

AtImplicit(u, d, pg) ==
    /\ AshleyIdle
    /\ pc = "implicit"
    /\ url = u /\ dom = d /\ leaves = LeavesOf(d)
    /\ site = [content |-> pg, soldOut |-> {}]
    /\ browser = "open" /\ closes = 0
    /\ page = pg
    /\ gotoLog = FailedLog(u, AllCombinations(_discover_options(d)))
    /\ url_params = _parse_url_params(u) /\ base_url = SplitBase(u)
    /\ product = [id |-> DictGet(_parse_url_params(u), "id"),
                  product_group_id |-> DictGet(_parse_url_params(u), "productGroupId"),
                  currency |-> "USD"]
    /\ options = _discover_options(d)
    /\ all_combinations = AllCombinations(_discover_options(d))
    /\ i = Len(AllCombinations(_discover_options(d)))
    /\ variants = <<>> /\ pricing = <<>>
    /\ exc = FALSE /\ result = <<>> /\ outputFile = <<>>

InitPricing == \E pg \in AllPages : AtImplicit(DEFAULT_PRODUCT_URL, ThreeCombos, pg)

NextPricing == ImplicitVariant

SpecPricing == InitPricing /\ [][NextPricing]_vars

----------------------------------------------------------------------------
(* Option discovery from the leaves of every bounded base page *)

\* leaf elements on one page
MaxLeaves == 3

\* a text with keywords of two parameters (Business Cards, in) and a padded
\* text with a keyword of one
LeafTexts == {"Business Cards", "  Matte "}

\* identifier attributes of a leaf, its parent and its grandparent: on the
\* leaf itself; on the parent only; a named leaf under a numbered parent; a
\* non-numeric data-id hiding a numeric data-value; on the grandparent only
LeafLevels ==
    { << [data_id |-> "1390", data_value |-> "", id |-> ""], NoIds, NoIds >>,
      << NoIds, [data_id |-> "", data_value |-> "1400", id |-> ""], NoIds >>,
      << [data_id |-> "", data_value |-> "", id |-> "opt-a"],
         [data_id |-> "1411", data_value |-> "", id |-> ""], NoIds >>,
      << [data_id |-> "sku7", data_value |-> "1412", id |-> ""], NoIds, NoIds >>,
      << NoIds, NoIds, [data_id |-> "", data_value |-> "", id |-> "1419"] >> }

LeafPool == [text : LeafTexts, levels : LeafLevels]

\* the script runs for every parameter, or raises for the first one
RaisePatterns == { <<FALSE, FALSE, FALSE, FALSE>>, <<TRUE, FALSE, FALSE, FALSE>> }

\* scrape has loaded a base page with leaves lv and extracted the metadata
AtScript(u, lv, raising, s) ==
    /\ AshleyIdle
    /\ pc = "discover"
    /\ url = u /\ leaves = lv /\ dom = DomOf(lv, raising) /\ site = s
    /\ browser = "open" /\ closes = 0
    /\ page = SitePage(s, u)
    /\ gotoLog = << [kind |-> "base", url |-> u, ok |-> TRUE] >>
    /\ url_params = _parse_url_params(u) /\ base_url = SplitBase(u)
    /\ product = [id |-> DictGet(_parse_url_params(u), "id"),
                  product_group_id |-> DictGet(_parse_url_params(u), "productGroupId"),
                  currency |-> "USD"]
    /\ options = <<>> /\ all_combinations = <<>> /\ i = 0
    /\ variants = <<>> /\ pricing = <<>>
    /\ exc = FALSE /\ result = <<>> /\ outputFile = <<>>

InitScript ==
    \E lv \in SeqsUpTo(LeafPool, MaxLeaves), raising \in RaisePatterns :
        AtScript(DEFAULT_PRODUCT_URL, lv, raising, [content |-> PricedPage, soldOut |-> {}])

NextScript == DiscoverOptions \/ Enumerate

SpecScript == InitScript /\ [][NextScript]_vars

----------------------------------------------------------------------------
(* AshleyFurnitureScraper.scrape *)

max_retries == 3

\* failed navigations to paginated pages and interrupted extractions in one run
MaxPageFailures == 1

PageFailures ==
    Cardinality({n \in 1..Len(ashley_gotoLog) :
                    \/ ashley_gotoLog[n].kind = "page" /\ ~ashley_gotoLog[n].ok
                    \/ ashley_gotoLog[n].kind # "initial" /\ ashley_gotoLog[n].stage # "all"})

\* launch, new_context, new_page, apply_stealth_sync
AshleyOpen ==
    /\ ashley_pc = "setup"
    /\ ashley_browser' = "open"
    /\ ashley_pc' = "initial"
    /\ UNCHANGED <<bizayVars, catalog, ashley_gotoLog, attempt, total_pages, page_num,
                   product_urls, variant_urls, ashley_exc, ashley_result>>

\* one of them raises: nothing catches it and nothing closes the browser
AshleySetupFault ==
    /\ ashley_pc = "setup"
    /\ ashley_browser' \in {"none", "open"}
    /\ ashley_exc' = TRUE
    /\ ashley_pc' = "raised"
    /\ UNCHANGED <<bizayVars, catalog, ashley_gotoLog, attempt, total_pages, page_num,
                   product_urls, variant_urls, ashley_result>>

\* InitialLoad raising on the first failed attempt
InitialLoadNoRetry ==
    /\ ashley_pc = "initial"
    /\ \E ok \in BOOLEAN :
         /\ ashley_gotoLog' = Append(ashley_gotoLog,
                                     [kind |-> "initial", n |-> attempt, ok |-> ok,
                                      stage |-> "all"])
         /\ IF ok
            THEN ashley_pc' = "count" /\ UNCHANGED <<attempt, ashley_exc>>
            ELSE ashley_exc' = TRUE /\ ashley_pc' = "finally" /\ UNCHANGED attempt
    /\ UNCHANGED <<bizayVars, catalog, ashley_browser, total_pages, page_num, product_urls,
                   variant_urls, ashley_result>>

\* one pass of for attempt in range(max_retries): goto and wait_for_timeout,
\* break on success; on an exception retry, or raise on the last attempt
InitialLoad ==
    /\ ashley_pc = "initial"
    /\ \E ok \in BOOLEAN :
         /\ ashley_gotoLog' = Append(ashley_gotoLog,
                                     [kind |-> "initial", n |-> attempt, ok |-> ok,
                                      stage |-> "all"])
         /\ IF ok
            THEN ashley_pc' = "count" /\ UNCHANGED <<attempt, ashley_exc>>
            ELSE IF attempt < max_retries - 1
            THEN attempt' = attempt + 1 /\ UNCHANGED <<ashley_pc, ashley_exc>>
            ELSE ashley_exc' = TRUE /\ ashley_pc' = "finally" /\ UNCHANGED attempt
    /\ UNCHANGED <<bizayVars, catalog, ashley_browser, total_pages, page_num, product_urls,
                   variant_urls, ashley_result>>

\* _dismiss_modals, _extract_product_count, total_pages
ExtractCount ==
    /\ ashley_pc = "count"
    /\ total_pages' = TotalPages(catalog.count)
    /\ ashley_pc' = "first"
    /\ UNCHANGED <<bizayVars, catalog, ashley_browser, ashley_gotoLog, attempt, page_num,
                   product_urls, variant_urls, ashley_exc, ashley_result>>

\* self._extract_urls_from_page(page) on the page of the initial load
ExtractFirstPage ==
    /\ ashley_pc = "first"
    /\ \E stage \in Stages :
         /\ stage # "all" => PageFailures < MaxPageFailures
         /\ ashley_gotoLog' = Append(ashley_gotoLog,
                                     [kind |-> "extract", n |-> 0, ok |-> TRUE,
                                      stage |-> stage])
         /\ product_urls' = product_urls \cup NewProductUrls(PageContent(catalog, 1), stage)
         /\ variant_urls' = variant_urls \cup NewVariantUrls(PageContent(catalog, 1), stage)
    /\ page_num' = 1
    /\ ashley_pc' = "pages"
    /\ UNCHANGED <<bizayVars, catalog, ashley_browser, attempt, total_pages, ashley_exc,
                   ashley_result>>

\* one pass of for page_num in range(1, total_pages): a failed goto is
\* caught and the loop continues with the next page
ScrapePage ==
    /\ ashley_pc = "pages"
    /\ page_num < total_pages
    /\ \E ok \in BOOLEAN, stage \in Stages :
         /\ ~ok => stage = "none"
         /\ (~ok \/ stage # "all") => PageFailures < MaxPageFailures
         /\ ashley_gotoLog' = Append(ashley_gotoLog,
                                     [kind |-> "page", n |-> page_num, ok |-> ok,
                                      stage |-> IF ok THEN stage ELSE "all"])
         /\ product_urls' =
              product_urls \cup NewProductUrls(PageContent(catalog, page_num + 1), stage)
         /\ variant_urls' =
              variant_urls \cup NewVariantUrls(PageContent(catalog, page_num + 1), stage)
    /\ page_num' = page_num + 1
    /\ UNCHANGED <<bizayVars, catalog, ashley_browser, attempt, total_pages, ashley_pc,
                   ashley_exc, ashley_result>>

PagesExit ==
    /\ ashley_pc = "pages"
    /\ page_num >= total_pages
    /\ ashley_pc' = "finally"
    /\ UNCHANGED <<bizayVars, catalog, ashley_browser, ashley_gotoLog, attempt, total_pages,
                   page_num, product_urls, variant_urls, ashley_exc, ashley_result>>

\* finally: browser.close()
AshleyFinally ==
    /\ ashley_pc = "finally"
    /\ ashley_browser' = "closed"
    /\ ashley_pc' = IF ashley_exc THEN "raised" ELSE "assemble"
    /\ UNCHANGED <<bizayVars, catalog, ashley_gotoLog, attempt, total_pages, page_num,
                   product_urls, variant_urls, ashley_exc, ashley_result>>

\* all_urls, result; return result
AshleyAssemble ==
    /\ ashley_pc = "assemble"
    /\ \E now \in Clock :
         LET all_urls == sorted(product_urls \cup variant_urls)
         IN  ashley_result' =
               << [source |-> DEFAULT_CATEGORY_URL, collected_at |-> now,
                   product_urls |-> all_urls,
                   stats |-> [total_urls |-> Len(all_urls),
                              base_products |-> Cardinality(product_urls),
                              variant_urls |-> Cardinality(variant_urls)]] >>
    /\ ashley_pc' = "returned"
    /\ UNCHANGED <<bizayVars, catalog, ashley_browser, ashley_gotoLog, attempt, total_pages,
                   page_num, product_urls, variant_urls, ashley_exc>>

\* the Bizay scraper is not run
BizayIdle ==
    /\ pc = "launch"
    /\ url = DEFAULT_PRODUCT_URL
    /\ dom = <<NoValues, NoValues, NoValues, NoValues>> /\ leaves = <<>>
    /\ site = [content |-> EmptyPage, soldOut |-> {}]
    /\ browser = "none" /\ closes = 0
    /\ page = EmptyPage /\ gotoLog = <<>>
    /\ url_params = <<>> /\ base_url = NoUrl /\ product = NoProduct
    /\ options = <<>> /\ all_combinations = <<>> /\ i = 0
    /\ variants = <<>> /\ pricing = <<>>
    /\ exc = FALSE /\ result = <<>> /\ outputFile = <<>>

InitAshley == BizayIdle /\ \E cat \in Catalogs : AshleyStart(cat)

NextAshley ==
    \/ AshleyOpen \/ AshleySetupFault \/ InitialLoad \/ ExtractCount \/ ExtractFirstPage
    \/ ScrapePage \/ PagesExit \/ AshleyFinally \/ AshleyAssemble

SpecAshley == InitAshley /\ [][NextAshley]_vars

----------------------------------------------------------------------------
(* Properties *)

\* the selection of the k-th combination, as a variant records it
RecordedSelection(k) == FormatSelection(SelectionOf(all_combinations[k]))

\* the variant the k-th navigation captured
Captured(k) ==
    _scrape_variant(SelectionOf(all_combinations[k]), TRUE,
                    SitePage(site, gotoLog[k + 1].url))[1]

\* of the first n selections, every one that was scraped has exactly one
\* variant in vs, the one captured, and every one that failed has none
KeptIn(vs, n) ==
    \A k \in 1..n :
        LET hits == {m \in 1..Len(vs) : vs[m].selection = RecordedSelection(k)}
        IN  IF gotoLog[k + 1].ok
            THEN Cardinality(hits) = 1 /\ \A m \in hits : vs[m] = Captured(k)
            ELSE hits = {}

\* C1: at every point of the loop, and in the record scrape returns, each
\* selection handled so far whose _scrape_variant call succeeded has exactly
\* one variant, unaltered, and a failed call leaves none and removes none
C1_CapturedVariantsKept ==
    /\ KeptIn(variants, i)
    /\ result # <<>> => /\ i = Len(all_combinations)
                        /\ KeptIn(result[1].variants, i)

\* C1: a record was returned with a variant captured before a later failure
C1_Witness ==
    /\ result # <<>>
    /\ \E a, b \in 1..i : a < b /\ gotoLog[a + 1].ok /\ ~gotoLog[b + 1].ok
    /\ Len(result[1].variants) >= 2

\* the axes for which the discovery script returned values
InferredAxes == {n \in 1..Len(spf_names) : ~dom[n].raises /\ dom[n].values # <<>>}

\* the distinct (text, identifier) pairs the script returned for axis n
InferredValues(n) == IF dom[n].raises THEN {} ELSE Range(dom[n].values)

ValueCount(n) == Cardinality(InferredValues(n))

\* the number of distinct values over the axes in S
RECURSIVE ValueTotal(_)
ValueTotal(S) ==
    IF S = {} THEN 0
    ELSE LET n == CHOOSE n \in S : TRUE IN ValueCount(n) + ValueTotal(S \ {n})

DiscoveryInsufficient ==
    Cardinality(InferredAxes) < 2 \/ ValueTotal(InferredAxes) < 4

\* position of the first occurrence of v in s
FirstIndex(s, v) == CHOOSE n \in 1..Len(s) : s[n] = v /\ \A m \in 1..(n - 1) : s[m] # v

\* opts is the inferred axes as found: one group per inferred axis in the
\* order of the spf parameters, each with the distinct values of that axis in
\* the order of their first occurrence
IsInferred(opts) ==
    /\ Len(opts) = Cardinality(InferredAxes)
    /\ \A a, b \in 1..Len(opts) :
         a < b => \E m, n \in InferredAxes :
                     /\ m < n
                     /\ opts[a].spf_param = spf_names[m].spf_param
                     /\ opts[b].spf_param = spf_names[n].spf_param
    /\ \A a \in 1..Len(opts) :
         \E n \in InferredAxes :
            /\ opts[a].spf_param = spf_names[n].spf_param
            /\ opts[a].key = spf_names[n].key
            /\ opts[a].name = spf_names[n].name
            /\ Range(opts[a].values) = InferredValues(n)
            /\ Len(opts[a].values) = ValueCount(n)
            /\ \A x, y \in 1..Len(opts[a].values) :
                 x < y => FirstIndex(dom[n].values, opts[a].values[x])
                            < FirstIndex(dom[n].values, opts[a].values[y])

IsPredefinedTable(opts) ==
    /\ Len(opts) = 3
    /\ opts[1].name = "Shape" /\ opts[1].spf_param = "spf1"
    /\ opts[2].name = "Size" /\ opts[2].spf_param = "spf2"
    /\ opts[3].name = "Paper stock" /\ opts[3].spf_param = "spf3"
    /\ [n \in 1..3 |-> [m \in 1..Len(opts[n].values) |-> opts[n].values[m].id]]
         = << <<"1390", "1399">>, <<"1391", "1406">>, <<"1419", "1420", "1421">> >>
    /\ opts = _get_predefined_options

\* C2: once _discover_options has returned, the options are the predefined
\* table if fewer than 2 axes have values or fewer than 4 values were found
\* over all axes, and otherwise the inferred axes unchanged
C2_FallbackIffInsufficient ==
    pc \in {"enumerate", "loop"} =>
        IF DiscoveryInsufficient THEN IsPredefinedTable(options) ELSE IsInferred(options)

\* C2: two axes were inferred but only three values: the table is returned
C2_Witness ==
    /\ pc = "enumerate"
    /\ Cardinality(InferredAxes) = 2
    /\ ValueTotal(InferredAxes) = 3
    /\ IsPredefinedTable(options)

RECURSIVE SeqProduct(_)
SeqProduct(ns) == IF ns = <<>> THEN 1 ELSE Head(ns) * SeqProduct(Tail(ns))

\* the axes of options that have at least one value
RECURSIVE SurvivingAxes(_)
SurvivingAxes(opts) ==
    IF opts = <<>> THEN <<>>
    ELSE (IF Head(opts).values # <<>> THEN <<Head(opts)>> ELSE <<>>)
            \o SurvivingAxes(Tail(opts))

\* position in axis ax of the value an item of a combination carries
ValueIndex(ax, item) ==
    CHOOSE n \in 1..Len(ax.values) :
        ax.values[n].value = item.value /\ ax.values[n].id = item.id

\* combination c comes before d when the first axis varies slowest
LexBefore(axes, c, d) ==
    \E j \in 1..Len(axes) :
        /\ \A h \in 1..(j - 1) : c[h] = d[h]
        /\ ValueIndex(axes[j], c[j]) < ValueIndex(axes[j], d[j])

\* C3: the enumerated selections number the product of the value counts of
\* the axes with values, each assigns one value of its axis to every such
\* axis, they are pairwise distinct and ordered with the first axis slowest
C3_CartesianProduct ==
    pc = "loop" =>
        LET axes == SurvivingAxes(options)
            n == Len(all_combinations)
        IN  /\ n = SeqProduct([a \in 1..Len(axes) |-> Len(axes[a].values)])
            /\ \A c \in 1..n :
                 /\ Len(all_combinations[c]) = Len(axes)
                 /\ Len(SelectionOf(all_combinations[c])) = Len(axes)
                 /\ \A a \in 1..Len(axes) :
                      /\ all_combinations[c][a].key = axes[a].key
                      /\ SelectionOf(all_combinations[c])[a][1] = axes[a].key
                      /\ SelectionOf(all_combinations[c])[a][2] = all_combinations[c][a]
                      /\ \E v \in 1..Len(axes[a].values) :
                           /\ axes[a].values[v].value = all_combinations[c][a].value
                           /\ axes[a].values[v].id = all_combinations[c][a].id
            /\ \A c, d \in 1..n :
                 c # d => SelectionOf(all_combinations[c]) # SelectionOf(all_combinations[d])
            /\ \A c, d \in 1..n :
                 c < d => LexBefore(axes, all_combinations[c], all_combinations[d])

\* C3: axes of 2, 2 and 3 values gave 12 selections
C3_Witness ==
    /\ pc = "loop"
    /\ [a \in 1..Len(options) |-> Len(options[a].values)] = <<2, 2, 3>>
    /\ Len(all_combinations) = 12

BaseAttempts == Cardinality({n \in 1..Len(gotoLog) : gotoLog[n].kind = "base"})

VariantAttempts(u) ==
    Cardinality({n \in 1..Len(gotoLog) : gotoLog[n].kind = "variant" /\ gotoLog[n].url = u})

BaseLoadFailed == gotoLog # <<>> /\ ~gotoLog[Len(gotoLog)].ok /\ gotoLog[Len(gotoLog)].kind = "base"

\* C4: scrape gives up on the base page only after retrying its navigation,
\* and navigates to each variant URL once, failed or not
C4_BaseLoadRetried ==
    /\ (BaseLoadFailed /\ pc \in {"finally", "aborted"}) => BaseAttempts >= 2
    /\ \A n \in 1..Len(gotoLog) :
         gotoLog[n].kind = "variant" => VariantAttempts(gotoLog[n].url) = 1

\* scrape has handled every combination and the record it returned is built
\* from its locals
CompleteRecord(r) ==
    /\ gotoLog[1].ok
    /\ i = Len(all_combinations)
    /\ closes = 1
    /\ r = [source_url |-> url, scraped_at |-> r.scraped_at, product |-> product,
            options |-> FormatOptions(options), variants |-> variants]

\* C5: when the base page cannot be loaded scrape raises and returns no
\* record and no file is written; a file is written only with the complete
\* record scrape returned
C5_NoOutputWithoutRecord ==
    /\ (gotoLog # <<>> /\ ~gotoLog[1].ok) =>
          /\ pc \in {"finally", "aborted"} /\ exc
          /\ result = <<>> /\ outputFile = <<>>
    /\ pc = "aborted" => result = <<>> /\ outputFile = <<>>
    /\ result # <<>> => CompleteRecord(result[1])
    /\ outputFile # <<>> => pc = "done" /\ outputFile = result /\ result # <<>>

\* C5: the base page failed to load and scrape has raised to main
C5_Witness ==
    /\ pc = "aborted"
    /\ gotoLog # <<>> /\ ~gotoLog[1].ok
    /\ closes = 1
    /\ outputFile = <<>>

\* position of the first candidate of quantity q in the raw sequence
FirstOfQuantity(raw, q) ==
    CHOOSE n \in 1..Len(raw) :
        raw[n].quantity = q /\ \A m \in 1..(n - 1) : raw[m].quantity # q

\* C7: the tier list _extract_pricing returns is strictly ascending by
\* quantity (so its quantities are pairwise distinct) and each tier carries
\* the total of the first raw candidate of its quantity
C7_DedupFirstWinsSorted ==
    pc = "finally" =>
        LET raw == PricingData(page)
        IN  /\ \A a, b \in 1..Len(pricing) :
                 a < b => pricing[a].quantity < pricing[b].quantity
            /\ \A a \in 1..Len(pricing) :
                 /\ \E m \in 1..Len(raw) : raw[m].quantity = pricing[a].quantity
                 /\ pricing[a].total_price.amount
                      = raw[FirstOfQuantity(raw, pricing[a].quantity)].total_price

\* C7: the raw candidates were out of order and held one quantity twice with
\* different totals; two tiers were returned
C7_Witness ==
    /\ pc = "finally"
    /\ Len(pricing) = 2
    /\ LET raw == PricingData(page)
       IN  /\ \E m, n \in 1..Len(raw) :
                /\ m < n
                /\ raw[m].quantity = raw[n].quantity
                /\ raw[m].total_price # raw[n].total_price
           /\ \E m, n \in 1..Len(raw) :
                m < n /\ Truthy(raw[n].quantity) /\ raw[m].quantity > raw[n].quantity

\* the (quantity, amount) pairs the two passes read off the page
RowPairs(pg) ==
    {<<pg.rows[n].qty, pg.rows[n].price>> : n \in 1..Len(pg.rows)}

CellPairs(pg) ==
    {<<pg.cells[n].qty, pg.cells[n + 1].price>> : n \in 1..(Len(pg.cells) - 1)}

\* C8: every tier _extract_pricing returns has 50 <= quantity < 100000 and a
\* total above zero, and is a pair read by the row pass or the cell pass
C8_TiersWithinBounds ==
    pc = "finally" =>
        \A a \in 1..Len(pricing) :
            /\ pricing[a].quantity >= 50
            /\ pricing[a].quantity < 100000
            /\ pricing[a].total_price.amount > 0
            /\ <<pricing[a].quantity, pricing[a].total_price.amount>>
                 \in RowPairs(page) \cup CellPairs(page)

\* a pair both patterns matched that lies outside the bounds
OutOfBounds(pair) ==
    /\ pair[1] # NoMatch /\ pair[2] # NoMatch
    /\ (pair[1] < 50 \/ pair[1] >= 100000 \/ pair[2] <= 0)

\* C8: the row pass and the cell pass each read a pair outside the bounds,
\* and a tier was returned from the pairs within them
C8_Witness ==
    /\ pc = "finally"
    /\ pricing # <<>>
    /\ \E r \in RowPairs(page) : OutOfBounds(r)
    /\ \E c \in CellPairs(page) : OutOfBounds(c)

\* number of occurrences of the pair kv in a query
Occurrences(query, kv) == Cardinality({n \in 1..Len(query) : query[n] = kv})

\* the spf parameters a selection sets
SelectionParams(selection) == {selection[n][2].spf_param : n \in 1..Len(selection)}

\* C9: every variant URL navigated to carries each axis parameter of its
\* selection with the chosen identifier, every other parameter of the product
\* URL as often as and with the value it has there, and the scheme, host and
\* path of the product URL
C9_OtherParamsPreserved ==
    \A k \in 1..(Len(gotoLog) - 1) :
        LET nav == gotoLog[k + 1].url
            selection == SelectionOf(all_combinations[k])
        IN  /\ SplitBase(nav) = SplitBase(url)
            /\ \A n \in 1..Len(selection) :
                 Occurrences(nav.query,
                             <<selection[n][2].spf_param, selection[n][2].id>>) = 1
            /\ \A n \in 1..Len(url.query) :
                 url.query[n][1] \notin SelectionParams(selection) =>
                    Occurrences(nav.query, url.query[n]) = Occurrences(url.query, url.query[n])

\* scrape has returned or raised
Exited == pc \in {"aborted", "write", "done"}

\* the session was acquired and the try block entered
TryEntered == gotoLog # <<>>

\* C10: browser.close() is never called twice, and once scrape has returned
\* or raised after entering its try block the browser was closed exactly once
C10_ClosedExactlyOnce ==
    /\ closes <= 1
    /\ (Exited /\ TryEntered) => closes = 1 /\ browser = "closed"
    /\ pc = "assemble" => closes = 1 /\ browser = "closed"

\* C10: a fault in the variant loop, after a variant was captured, has left
\* scrape with the browser closed
C10_Witness ==
    /\ pc = "aborted"
    /\ exc
    /\ gotoLog # <<>> /\ gotoLog[1].ok
    /\ variants # <<>>
    /\ closes = 1 /\ browser = "closed"

\* the leaves the script considers for the n-th spf parameter
Candidates(n) ==
    {k \in 1..Len(leaves) :
        leaves[k].text # "" /\ hasKeyword(spf_names[n].spf_param, Trim(leaves[k].text))}

\* the levels of a leaf, nearest first, that carry an identifier
IdLevels(el) == {m \in 1..Len(el.levels) : m <= 3 /\ LevelId(el.levels[m]) # ""}

\* the levels of a leaf that carry an all-digit identifier
NumericLevels(el) == {m \in IdLevels(el) : IsDigits(LevelId(el.levels[m]))}

Nearest(S) == CHOOSE m \in S : \A o \in S : m <= o

\* the values of axis n if a candidate counted only when its nearest
\* identifier is all digits
NearestIdValues(n) ==
    {[value |-> Trim(leaves[k].text),
      id |-> LevelId(leaves[k].levels[Nearest(IdLevels(leaves[k]))])] :
        k \in {c \in Candidates(n) :
                 IdLevels(leaves[c]) # {}
                    /\ Nearest(IdLevels(leaves[c])) \in NumericLevels(leaves[c])}}

\* the values of axis n if a candidate counts when any of its three levels
\* has an all-digit identifier, and takes the nearest such identifier
FirstNumericValues(n) ==
    {[value |-> Trim(leaves[k].text),
      id |-> LevelId(leaves[k].levels[Nearest(NumericLevels(leaves[k]))])] :
        k \in {c \in Candidates(n) : NumericLevels(leaves[c]) # {}}}

\* every identifier is all digits and no axis holds a (text, identifier)
\* pair twice
DigitsAndDistinct(opts) ==
    \A a \in 1..Len(opts) :
        /\ \A v \in 1..Len(opts[a].values) : IsDigits(opts[a].values[v].id)
        /\ \A v, w \in 1..Len(opts[a].values) :
             v # w => opts[a].values[v] # opts[a].values[w]

\* opts is the predefined table, or each of its axes holds the values
\* From gives for its spf parameter
TableOrFrom(opts, From(_)) ==
    \/ opts = _get_predefined_options
    \/ \A a \in 1..Len(opts) :
         \E n \in 1..Len(spf_names) :
            /\ opts[a].spf_param = spf_names[n].spf_param
            /\ ~dom[n].raises
            /\ Range(opts[a].values) = From(n)

\* C11 (as claimed): the options have all-digit identifiers and distinct
\* pairs per axis, and a candidate whose nearest identifier within three
\* levels is not numeric contributes no value
C11_NearestNonNumericExcluded ==
    pc \in {"enumerate", "loop"} =>
        /\ DigitsAndDistinct(options)
        /\ TableOrFrom(options, NearestIdValues)

\* C11 (amended): the options have all-digit identifiers and distinct pairs
\* per axis; a candidate contributes a value exactly when the element, its
\* parent or its grandparent has an all-digit identifier, and the value takes
\* the nearest such identifier
C11_FirstNumericAnchors ==
    pc \in {"enumerate", "loop"} =>
        /\ DigitsAndDistinct(options)
        /\ TableOrFrom(options, FirstNumericValues)

\* C11: the options were inferred; one candidate took the identifier of its
\* parent past its own non-numeric one, another had no numeric identifier
\* and left no value
C11_Witness ==
    /\ pc = "enumerate"
    /\ options # _get_predefined_options
    /\ \E n \in 1..Len(spf_names) :
         /\ \E k \in Candidates(n) :
              /\ NumericLevels(leaves[k]) # {}
              /\ Nearest(IdLevels(leaves[k])) \notin NumericLevels(leaves[k])
         /\ \E k \in Candidates(n) : NumericLevels(leaves[k]) = {}

\* the page shows a current-price element whose text holds a dollar amount
HasMainPrice(pg) == ~pg.broken /\ pg.main # NoElement /\ pg.main # NoMatch

\* C12: when the page shows a current price, the list _extract_pricing
\* returns holds exactly one record without a quantity, with that price as
\* its total and no unit price, and it comes before every tier
C12_MainPriceRecorded ==
    (pc = "finally" /\ HasMainPrice(page)) =>
        /\ Cardinality({a \in 1..Len(pricing) : pricing[a].quantity = Null}) = 1
        /\ pricing[1].quantity = Null
        /\ pricing[1].unit_price.amount = Null
        /\ pricing[1].total_price.amount = page.main

\* what the renderer gives one run: the content of the site for each URL
\* (site), what the discovery script returns on the base page (dom), which
\* navigations fail (gotoLog[k].ok) and what it shows once the last one has
\* failed (page). The record a run returns is compared with these alone.

\* the options and the selections that follow from the base page
RenderedOptions == _discover_options(dom)

RenderedCombinations == AllCombinations(RenderedOptions)

\* the variant of the k-th selection, from the content of its URL
RenderedVariant(k) ==
    LET selection == SelectionOf(RenderedCombinations[k])
        content == SitePage(site, VariantUrl(SplitBase(url), _parse_url_params(url),
                                             selection))
    IN  [sku |-> PyNone,
         available |-> _extract_pricing(content) # <<>>,
         selection |-> FormatSelection(selection),
         pricing |-> _extract_pricing(content)]

\* the variants of the first n selections whose navigation did not fail
RECURSIVE RenderedVariants(_)
RenderedVariants(n) ==
    IF n = 0 THEN <<>>
    ELSE RenderedVariants(n - 1)
           \o (IF gotoLog[n + 1].ok THEN <<RenderedVariant(n)>> ELSE <<>>)

\* the variants of a whole run
RunVariants ==
    LET captured == RenderedVariants(Len(RenderedCombinations))
    IN  IF captured # <<>> THEN captured
        ELSE IF _extract_pricing(page) # <<>>
        THEN << [sku |-> PyNone, available |-> TRUE, selection |-> <<>>,
                 pricing |-> _extract_pricing(page)] >>
        ELSE <<>>

\* C13: the options and the variants of the record scrape returns are
\* determined by what the renderer returned and by which navigations
\* failed, whatever the instant of the run: two runs that agree on these
\* return the same options and the same variants in the same order
C13_RecordDetermined ==
    result # <<>> =>
        /\ Len(gotoLog) = Len(RenderedCombinations) + 1
        /\ result[1].source_url = url
        /\ result[1].options = FormatOptions(RenderedOptions)
        /\ result[1].variants = RunVariants
        /\ result[1].scraped_at \in Clock

\* C13: a record was returned at the later instant, after a run in which
\* some navigations failed and at least two variants with different pricing
\* were captured
C13_Witness ==
    /\ result # <<>>
    /\ result[1].scraped_at = 2
    /\ \E k \in 2..Len(gotoLog) : ~gotoLog[k].ok
    /\ \E a, b \in 1..Len(result[1].variants) :
          result[1].variants[a].pricing # result[1].variants[b].pricing

\* u, in 1/10000 dollar, is a nearest multiple of 0.0001 to total / quantity
\* (total in cents)
NearestTo(u, total, quantity) ==
    LET d == u * quantity - total * 100
    IN  2 * (IF d < 0 THEN -d ELSE d) <= quantity

\* C14: every tier _extract_pricing returns has as unit price its total
\* divided by its quantity, rounded to 4 decimals, and as total the amount
\* read off the page for that quantity
C14_UnitPriceRounded ==
    pc = "finally" =>
        \A a \in 1..Len(pricing) :
            /\ NearestTo(pricing[a].unit_price.amount, pricing[a].total_price.amount,
                         pricing[a].quantity)
            /\ pricing[a].unit_price.currency = "USD"
            /\ \E m \in 1..Len(PricingData(page)) :
                 /\ PricingData(page)[m].quantity = pricing[a].quantity
                 /\ PricingData(page)[m].total_price = pricing[a].total_price.amount

\* C14: the tier (250, $110.00) was returned with unit price 0.4400, next
\* to a tier whose division is inexact, (300, $50.00) with 0.1667
C14_Witness ==
    /\ pc = "finally"
    /\ \E a \in 1..Len(pricing) :
          /\ pricing[a].quantity = 250
          /\ pricing[a].total_price.amount = 11000
          /\ pricing[a].unit_price.amount = 4400
    /\ \E a \in 1..Len(pricing) :
          /\ pricing[a].quantity = 300
          /\ pricing[a].total_price.amount = 5000
          /\ pricing[a].unit_price.amount = 1667

\* C15: a variant with an empty selection is in the record only when no
\* selection was enumerated, and then no variant navigation came before the
\* extraction of its pricing; with at least one selection enumerated no
\* variant has an empty selection, even when every variant navigation failed
C15_ImplicitOnlyWithoutSelections ==
    \A n \in 1..Len(variants) :
        variants[n].selection = <<>> =>
            /\ all_combinations = <<>>
            /\ \A k \in 1..Len(gotoLog) : gotoLog[k].kind # "variant"

\* the selections of vs occur, in this order, among those of the
\* combinations from the k-th on
RECURSIVE InEnumerationOrder(_, _)
InEnumerationOrder(vs, k) ==
    IF vs = <<>> THEN TRUE
    ELSE IF k > Len(all_combinations) THEN FALSE
    ELSE IF Head(vs).selection = RecordedSelection(k)
         THEN InEnumerationOrder(Tail(vs), k + 1)
    ELSE InEnumerationOrder(vs, k + 1)

\* the steps of scrape that come before the loop over the selections
BeforeLoop == {"launch", "new_context", "new_page", "load", "metadata", "discover",
               "enumerate"}

\* the navigations follow the loaded base page, one per selection handled,
\* each to the URL of its selection, in enumeration order
NavigationsInOrder ==
    /\ pc \in BeforeLoop => \A k \in 1..Len(gotoLog) : gotoLog[k].kind # "variant"
    /\ \A k \in 1..Len(gotoLog) :
         gotoLog[k].kind = "variant" =>
            /\ k >= 2 /\ gotoLog[1].kind = "base" /\ gotoLog[1].ok
            /\ k - 1 <= Len(all_combinations)
            /\ gotoLog[k].url = VariantUrl(base_url, url_params,
                                           SelectionOf(all_combinations[k - 1]))
    /\ pc = "loop" => Len(gotoLog) = i + 1
    /\ result # <<>> => Len(gotoLog) = Len(all_combinations) + 1

\* C16: every enumerated selection is navigated to exactly once, in
\* enumeration order, after the base load, the metadata and the discovery;
\* the variants of the record are selections of the enumeration in its
\* order, each available exactly when it has a tier
C16_VariantsInEnumerationOrder ==
    /\ NavigationsInOrder
    /\ result # <<>> =>
          /\ InEnumerationOrder(result[1].variants, 1)
          /\ \A n \in 1..Len(result[1].variants) :
                result[1].variants[n].available <=> result[1].variants[n].pricing # <<>>

\* the attempts at the initial load and the navigations to later pages
InitialAttempts == SelectSeq(ashley_gotoLog, LAMBDA e : e.kind = "initial")

PageNavigations == SelectSeq(ashley_gotoLog, LAMBDA e : e.kind = "page")

\* scrape is inside its try block or has left it through finally
AshleyTryEntered == ashley_gotoLog # <<>>

\* C17: the initial load is attempted at most 3 times and scrape goes on at
\* the first success; an error leaves scrape exactly when 3 attempts have
\* failed, and then the browser is closed and no result is returned; a later
\* page is navigated to once whether or not that fails, a failure there
\* raises nothing, and no step takes a URL out of product_urls or
\* variant_urls
C17_InitialLoadRetriedPagesSkipped ==
    /\ [](/\ Len(InitialAttempts) <= 3
          /\ \A k \in 1..Len(InitialAttempts) :
               /\ InitialAttempts[k].n = k - 1
               /\ InitialAttempts[k].ok => k = Len(InitialAttempts)
          /\ ashley_pc \in {"count", "first", "pages", "assemble", "returned"} =>
               InitialAttempts[Len(InitialAttempts)].ok
          /\ AshleyTryEntered =>
               (ashley_exc <=> /\ Len(InitialAttempts) = 3
                               /\ \A k \in 1..3 : ~InitialAttempts[k].ok)
          /\ (AshleyTryEntered /\ ashley_pc = "raised") =>
               ashley_browser = "closed" /\ ashley_result = <<>>
          /\ \A k \in 1..Len(PageNavigations) : PageNavigations[k].n = k
          /\ Len(PageNavigations) = (IF page_num = 0 THEN 0 ELSE page_num - 1)
          /\ ashley_result # <<>> =>
               /\ ashley_browser = "closed"
               /\ Range(ashley_result[1].product_urls) = product_urls \cup variant_urls)
    /\ [][product_urls \subseteq product_urls' /\ variant_urls \subseteq variant_urls']_vars

\* C17: the initial load succeeded at the third attempt, a later page could
\* not be loaded after URLs had been collected, and the record returned
\* holds the URLs of the pages before and after it
C17_Witness ==
    /\ ashley_result # <<>>
    /\ Len(InitialAttempts) = 3
    /\ \E k \in 1..Len(PageNavigations) : ~PageNavigations[k].ok
    /\ "https://www.ashleyfurniture.com/p/bed-a/B100?dwvar_B100_color=dark+oak"
         \in Range(ashley_result[1].product_urls)
    /\ "https://www.ashleyfurniture.com/p/bed-c/B300"
         \in Range(ashley_result[1].product_urls)
    /\ "https://www.ashleyfurniture.com/p/bed-b/B200"
         \notin Range(ashley_result[1].product_urls)

====
